---------------------------- MODULE Spec2Model ----------------------------
(***************************************************************************)
(* A model of the ai-gateway: the deterministic NLP helpers (heuristic     *)
(* router, price-intent parser, keyword reducer, price guardrails), the    *)
(* catalog tool and the POST /chat handler.                                *)
(*                                                                         *)
(* Texts are TLA+ strings and the regular expressions of the source are    *)
(* translated character by character: a character is a string of length 1  *)
(* and "" stands for "outside the string".                                 *)
(***************************************************************************)
EXTENDS Integers, Sequences, FiniteSets, TLC

(***************************************************************************)
(* Characters and character classes of the regular expressions.            *)
(***************************************************************************)
LowerLetters == "abcdefghijklmnopqrstuvwxyz"
UpperLetters == "ABCDEFGHIJKLMNOPQRSTUVWXYZ"
DigitString == "0123456789"

CharsOf(s) == { SubSeq(s, i, i) : i \in 1..Len(s) }

LowerSet == CharsOf(LowerLetters)
UpperSet == CharsOf(UpperLetters)
DigitSet == CharsOf(DigitString)

\* \s of the regular expressions (the characters of it the inputs can hold)
WhiteSpace == {" ", "\t", "\n"}

\* s[i], or "" when i is outside s
CharAt(s, i) == IF 1 <= i /\ i <= Len(s) THEN SubSeq(s, i, i) ELSE ""

IsDigit(c) == c \in DigitSet
IsSpace(c) == c \in WhiteSpace
\* \w : [A-Za-z0-9_]
IsWordChar(c) == c \in LowerSet \/ c \in UpperSet \/ c \in DigitSet \/ c = "_"

\* \b between s[p-1] and s[p]
WordBoundary(s, p) == IsWordChar(CharAt(s, p - 1)) # IsWordChar(CharAt(s, p))

ToLowerChar(c) ==
  IF c \in UpperSet
    THEN LET i == CHOOSE k \in 1..Len(UpperLetters) : SubSeq(UpperLetters, k, k) = c
         IN  SubSeq(LowerLetters, i, i)
    ELSE c

RECURSIVE ToLowerCase(_)
ToLowerCase(s) ==
  IF s = "" THEN "" ELSE ToLowerChar(SubSeq(s, 1, 1)) \o ToLowerCase(SubSeq(s, 2, Len(s)))

\* the literal lit (lower case) is at position i of s, letter case ignored (flag i)
LitAt(s, i, lit) ==
  /\ i >= 1
  /\ i + Len(lit) - 1 <= Len(s)
  /\ ToLowerChar(SubSeq(s, i, i)) = SubSeq(lit, 1, 1)
  /\ ToLowerCase(SubSeq(s, i, i + Len(lit) - 1)) = lit

\* String.prototype.trim
RECURSIVE TrimLeft(_)
TrimLeft(s) ==
  IF s # "" /\ IsSpace(SubSeq(s, 1, 1)) THEN TrimLeft(SubSeq(s, 2, Len(s))) ELSE s

RECURSIVE TrimRight(_)
TrimRight(s) ==
  IF s # "" /\ IsSpace(SubSeq(s, Len(s), Len(s)))
    THEN TrimRight(SubSeq(s, 1, Len(s) - 1)) ELSE s

Trim(s) == TrimRight(TrimLeft(s))

(***************************************************************************)
(* Numbers.  Number(m[1]) of a capture \d+(?:\.\d+)? is kept exactly, as   *)
(* the decimal n / 10^d with no trailing zero in the fraction.             *)
(***************************************************************************)
DigitVal(c) == (CHOOSE k \in 1..10 : SubSeq(DigitString, k, k) = c) - 1

RECURSIVE Pow10(_)
Pow10(k) == IF k = 0 THEN 1 ELSE 10 * Pow10(k - 1)

RECURSIVE NormDec(_)
NormDec(x) ==
  IF x.d > 0 /\ x.n % 10 = 0 THEN NormDec([n |-> x.n \div 10, d |-> x.d - 1]) ELSE x

Dec(n, d) == NormDec([n |-> n, d |-> d])

\* the digits of a numeral read as one integer, the "." skipped
RECURSIVE DigitsValue(_, _)
DigitsValue(str, acc) ==
  IF str = "" THEN acc
  ELSE LET c == SubSeq(str, 1, 1)
           rest == SubSeq(str, 2, Len(str))
       IN  IF c = "." THEN DigitsValue(rest, acc)
           ELSE DigitsValue(rest, 10 * acc + DigitVal(c))

RECURSIVE FractionDigits(_)
FractionDigits(str) ==
  IF str = "" THEN 0
  ELSE IF SubSeq(str, 1, 1) = "." THEN Len(str) - 1
  ELSE FractionDigits(SubSeq(str, 2, Len(str)))

Number(str) == Dec(DigitsValue(str, 0), FractionDigits(str))

\* a double holds every numeral of fewer than 309 integer digits
MaxFiniteDigits == 308
NumberIsFinite(str) == Len(str) - FractionDigits(str) <= MaxFiniteDigits + 1

DecLeq(a, b) == a.n * Pow10(b.d) <= b.n * Pow10(a.d)
DecLt(a, b) == a.n * Pow10(b.d) < b.n * Pow10(a.d)
MathMin(a, b) == IF DecLeq(a, b) THEN a ELSE b
MathMax(a, b) == IF DecLeq(a, b) THEN b ELSE a

(***************************************************************************)
(* Pieces shared by the price patterns.                                    *)
(***************************************************************************)
\* \s* from p: the first position at or after p that holds no white space
RECURSIVE SkipSpaces(_, _)
SkipSpaces(s, p) == IF IsSpace(CharAt(s, p)) THEN SkipSpaces(s, p + 1) ELSE p

\* an optional "$" at a, then \s*
SkipDollar(s, a) == IF CharAt(s, a) = "$" THEN SkipSpaces(s, a + 1) ELSE a

\* \s*\$?\s* from p: where the number has to start
NumStart(s, p) == SkipDollar(s, SkipSpaces(s, p))

\* \d* from p: the first position at or after p that holds no digit
RECURSIVE DigitsEnd(_, _)
DigitsEnd(s, p) == IF IsDigit(CharAt(s, p)) THEN DigitsEnd(s, p + 1) ELSE p

\* (?:\.\d+)? at r
FractionEnd(s, r) ==
  IF CharAt(s, r) = "." /\ IsDigit(CharAt(s, r + 1)) THEN DigitsEnd(s, r + 1) ELSE r

\* (\d+(?:\.\d+)?) from a digit at q: the position after the greedy match.
\* What follows a capture in the patterns is white space, a letter, "-" or
\* nothing, so no shorter capture can make a pattern match.
NumEnd(s, q) == FractionEnd(s, DigitsEnd(s, q))

\* the text (\d+(?:\.\d+)?) captures from q
Capture(s, q) == SubSeq(s, q, NumEnd(s, q) - 1)

\* a keyword is a sequence of words, \s+ between them; the position after the
\* keyword when it is at position i of s, else 0
RECURSIVE KeywordEnd(_, _, _)
KeywordEnd(s, i, kw) ==
  IF ~LitAt(s, i, Head(kw)) THEN 0
  ELSE IF Len(kw) = 1 THEN i + Len(Head(kw))
  ELSE IF ~IsSpace(CharAt(s, i + Len(Head(kw)))) THEN 0
  ELSE KeywordEnd(s, SkipSpaces(s, i + Len(Head(kw))), Tail(kw))

NoMatch == [found |-> FALSE]

\* a match m of a pattern: m.index where it starts, m.alt the alternative it
\* took, m[0] and the captures
CaptureAfter(s, i, k, q) ==
  IF IsDigit(CharAt(s, q))
    THEN [found |-> TRUE, index |-> i, alt |-> k,
          m0 |-> SubSeq(s, i, NumEnd(s, q) - 1), m1 |-> Capture(s, q)]
    ELSE NoMatch

AfterKeyword(s, i, k, e) == IF e = 0 THEN NoMatch ELSE CaptureAfter(s, i, k, NumStart(s, e))

\* kws[k]\s*\$?\s*(\d+(?:\.\d+)?) at position i
KeywordNumberAt(s, i, kws, k) == AfterKeyword(s, i, k, KeywordEnd(s, i, kws[k]))

\* String.prototype.match without the flag g: of the matches there are, the
\* one that starts leftmost, and there the first alternative that matches
Leftmost(ms) ==
  IF ms = {} THEN NoMatch
  ELSE CHOOSE m \in ms :
         \A o \in ms : m.index < o.index \/ (m.index = o.index /\ m.alt <= o.alt)

\* text.match(/(?:kw1|kw2|...)\s*\$?\s*(\d+(?:\.\d+)?)/i)
MatchKeywordNumber(s, kws) ==
  Leftmost({ KeywordNumberAt(s, i, kws, k) : i \in 1..Len(s), k \in 1..Len(kws) }
             \ {NoMatch})

(***************************************************************************)
(* shouldUseCatalog: /\b(recommend|...|\$)\b/i.test(text)                   *)
(***************************************************************************)
HeuristicWords ==
  <<"recommend", "suggest", "game", "games", "price", "cost", "under", "below",
    "less than", "more than", "over", "between", "around", "almost", "close to", "$">>

shouldUseCatalog(text) ==
  \E i \in 1..Len(text) : \E k \in 1..Len(HeuristicWords) :
     /\ WordBoundary(text, i)
     /\ LitAt(text, i, HeuristicWords[k])
     /\ WordBoundary(text, i + Len(HeuristicWords[k]))

(***************************************************************************)
(* parsePriceIntent                                                        *)
(***************************************************************************)
\* a match with two captures, the second one at q2
SecondCapture(s, i, q1, q2) ==
  IF IsDigit(CharAt(s, q2))
    THEN [found |-> TRUE, index |-> i, alt |-> 1,
          m1 |-> Capture(s, q1), m2 |-> Capture(s, q2)]
    ELSE NoMatch

\* \s*(?:and|to)\s*\$?\s*(\d+(?:\.\d+)?) with the (?:and|to) at c
BetweenJoin(s, i, q1, c) ==
  IF LitAt(s, c, "and") THEN SecondCapture(s, i, q1, NumStart(s, c + Len("and")))
  ELSE IF LitAt(s, c, "to") THEN SecondCapture(s, i, q1, NumStart(s, c + Len("to")))
  ELSE NoMatch

BetweenFirst(s, i, q1) ==
  IF IsDigit(CharAt(s, q1))
    THEN BetweenJoin(s, i, q1, SkipSpaces(s, NumEnd(s, q1)))
    ELSE NoMatch

\* /between\s*\$?\s*(\d+(?:\.\d+)?)\s*(?:and|to)\s*\$?\s*(\d+(?:\.\d+)?)/i at i
BetweenAt(s, i) ==
  IF LitAt(s, i, "between")
    THEN BetweenFirst(s, i, NumStart(s, i + Len("between")))
    ELSE NoMatch

MatchBetween(s) == Leftmost({ BetweenAt(s, i) : i \in 1..Len(s) } \ {NoMatch})

\* \s*-\s*\$?\s*(\d+(?:\.\d+)?) with the "-" at c
DashJoin(s, q, c) ==
  IF CharAt(s, c) = "-" THEN SecondCapture(s, q, q, NumStart(s, c + 1)) ELSE NoMatch

\* /\$?\s*(\d+(?:\.\d+)?)\s*-\s*\$?\s*(\d+(?:\.\d+)?)/ with its first number at q.
\* The leading \$?\s* holds no digit, so the leftmost match is the one whose
\* first number starts leftmost.
DashAt(s, q) ==
  IF IsDigit(CharAt(s, q)) THEN DashJoin(s, q, SkipSpaces(s, NumEnd(s, q))) ELSE NoMatch

MatchDash(s) == Leftmost({ DashAt(s, q) : q \in 1..Len(s) } \ {NoMatch})

\* a || b of two match results
OrElse(a, b) == IF a.found THEN a ELSE b

\* text.match(between ...) || text.match(X - Y)
MatchRange(text) == OrElse(MatchBetween(text), MatchDash(text))

ExactKeywords == << <<"costs">>, <<"cost">>, <<"priced", "at">>, <<"exactly">>, <<"for">> >>
AboveKeywords == << <<"more", "than">>, <<"over">>, <<">">>, <<">=">>, <<"at", "least">> >>
UnderKeywords == << <<"under">>, <<"below">>, <<"<">>, <<"<=">>, <<"less", "than">> >>
ClosestKeywords == << <<"almost">>, <<"around">>, <<"about">>, <<"near">>, <<"close", "to">> >>

\* /re/i.test(m0) for a keyword pattern
TestKeyword(m0, kw) == \E j \in 1..Len(m0) : KeywordEnd(m0, j, kw) # 0

\* the test of the above block, were "at least" left out of it
AboveInclusive_OnlySymbol(m0) == TestKeyword(m0, <<">=">>)

AboveInclusive(m0) == TestKeyword(m0, <<">=">>) \/ TestKeyword(m0, <<"at", "least">>)
UnderInclusive(m0) == TestKeyword(m0, <<"<=">>)

PriceNone == [price_mode |-> "none"]

\* The five blocks of parsePriceIntent: what each returns for its match m, and
\* PriceNone when it falls through to the next block.
\* the range block, were Math.min and Math.max left out
RangeIntent_Unsorted(m) ==
  IF m.found /\ NumberIsFinite(m.m1) /\ NumberIsFinite(m.m2)
    THEN [price_mode |-> "range", min_price |-> Number(m.m1), max_price |-> Number(m.m2)]
    ELSE PriceNone

RangeIntent(m) ==
  IF m.found /\ NumberIsFinite(m.m1) /\ NumberIsFinite(m.m2)
    THEN [price_mode |-> "range",
          min_price |-> MathMin(Number(m.m1), Number(m.m2)),
          max_price |-> MathMax(Number(m.m1), Number(m.m2))]
    ELSE PriceNone

ExactIntent(m) ==
  IF m.found /\ NumberIsFinite(m.m1)
    THEN [price_mode |-> "exact", exact_price |-> Number(m.m1)]
    ELSE PriceNone

AboveIntent(m) ==
  IF m.found /\ NumberIsFinite(m.m1)
    THEN [price_mode |-> "above", min_price |-> Number(m.m1),
          min_inclusive |-> AboveInclusive(m.m0)]
    ELSE PriceNone

UnderIntent(m) ==
  IF m.found /\ NumberIsFinite(m.m1)
    THEN [price_mode |-> "under", max_price |-> Number(m.m1),
          max_inclusive |-> UnderInclusive(m.m0)]
    ELSE PriceNone

ClosestIntent(m) ==
  IF m.found /\ NumberIsFinite(m.m1)
    THEN [price_mode |-> "closest", target_price |-> Number(m.m1)]
    ELSE PriceNone

\* the first block, in the order of the source, that returns
FirstIntent(blocks) ==
  IF \A k \in 1..Len(blocks) : blocks[k] = PriceNone THEN PriceNone
  ELSE blocks[CHOOSE k \in 1..Len(blocks) :
                /\ blocks[k] # PriceNone
                /\ \A j \in 1..(k - 1) : blocks[j] = PriceNone]

\* parsePriceIntent, were the under block put before the above block
parsePriceIntent_UnderFirst(text) ==
  FirstIntent(<< RangeIntent(MatchRange(text)),
                 ExactIntent(MatchKeywordNumber(text, ExactKeywords)),
                 UnderIntent(MatchKeywordNumber(text, UnderKeywords)),
                 AboveIntent(MatchKeywordNumber(text, AboveKeywords)),
                 ClosestIntent(MatchKeywordNumber(text, ClosestKeywords)) >>)

parsePriceIntent(text) ==
  FirstIntent(<< RangeIntent(MatchRange(text)),
                 ExactIntent(MatchKeywordNumber(text, ExactKeywords)),
                 AboveIntent(MatchKeywordNumber(text, AboveKeywords)),
                 UnderIntent(MatchKeywordNumber(text, UnderKeywords)),
                 ClosestIntent(MatchKeywordNumber(text, ClosestKeywords)) >>)

(***************************************************************************)
(* deriveQuery                                                             *)
(***************************************************************************)
STOPWORDS ==
  { "recommend", "suggest", "show", "give",
    "game", "games", "genre", "genres",
    "explain", "why",
    "one", "that", "this", "these", "those", "it",
    "a", "an", "the",
    "me", "i", "you", "we", "my",
    "please",
    "cost", "costs", "priced", "price", "pricing",
    "under", "below", "less", "than", "more", "over", "at", "least",
    "between", "and", "to",
    "around", "about", "almost", "near", "close",
    "from", "any", "all", "anything", "everything" }

\* .replace(/[$<>]=?/g, " ")
RECURSIVE ReplaceSymbols(_, _)
ReplaceSymbols(s, i) ==
  IF i > Len(s) THEN ""
  ELSE IF CharAt(s, i) \in {"$", "<", ">"}
    THEN " " \o ReplaceSymbols(s, IF CharAt(s, i + 1) = "=" THEN i + 2 ELSE i + 1)
  ELSE CharAt(s, i) \o ReplaceSymbols(s, i + 1)

\* /\b\d+(?:\.\d+)?\b/ at i: the position after the match, 0 when there is none.
\* \d+ has to take the whole run of digits (\b fails inside it); the fraction
\* is given back when a word character follows it.
StandaloneNumberEnd(s, i) ==
  LET r == DigitsEnd(s, i)
      t == DigitsEnd(s, r + 1)
  IN  IF ~(IsDigit(CharAt(s, i)) /\ WordBoundary(s, i)) THEN 0
      ELSE IF CharAt(s, r) = "." /\ IsDigit(CharAt(s, r + 1)) /\ WordBoundary(s, t) THEN t
      ELSE IF WordBoundary(s, r) THEN r
      ELSE 0

\* .replace(/\b\d+(?:\.\d+)?\b/g, " ")
RECURSIVE ReplaceNumbers(_, _)
ReplaceNumbers(s, i) ==
  IF i > Len(s) THEN ""
  ELSE IF StandaloneNumberEnd(s, i) # 0
    THEN " " \o ReplaceNumbers(s, StandaloneNumberEnd(s, i))
  ELSE CharAt(s, i) \o ReplaceNumbers(s, i + 1)

\* .replace(/\s+/g, " ")
RECURSIVE CollapseSpaces(_, _)
CollapseSpaces(s, i) ==
  IF i > Len(s) THEN ""
  ELSE IF IsSpace(CharAt(s, i)) THEN " " \o CollapseSpaces(s, SkipSpaces(s, i))
  ELSE CharAt(s, i) \o CollapseSpaces(s, i + 1)

\* .replace(/[^a-z0-9\s-]/g, " ")
RECURSIVE ReplacePunctuation(_, _)
ReplacePunctuation(s, i) ==
  IF i > Len(s) THEN ""
  ELSE LET c == CharAt(s, i)
       IN  (IF c \in LowerSet \/ c \in DigitSet \/ IsSpace(c) \/ c = "-" THEN c ELSE " ")
             \o ReplacePunctuation(s, i + 1)

\* .split(" "): the pieces between the spaces, the empty ones too
RECURSIVE SplitSpace(_, _, _)
SplitSpace(s, i, cur) ==
  IF i > Len(s) THEN <<cur>>
  ELSE IF CharAt(s, i) = " " THEN <<cur>> \o SplitSpace(s, i + 1, "")
  ELSE SplitSpace(s, i + 1, cur \o CharAt(s, i))

\* .join(" ")
RECURSIVE JoinSpace(_)
JoinSpace(tokens) ==
  IF tokens = <<>> THEN ""
  ELSE IF Len(tokens) = 1 THEN tokens[1]
  ELSE tokens[1] \o " " \o JoinSpace(Tail(tokens))

\* .map(trim).filter(length > 1).filter(not a stopword)
KeepToken(t) == Len(Trim(t)) > 1 /\ Trim(t) \notin STOPWORDS

RECURSIVE FilterTokens(_)
FilterTokens(tokens) ==
  IF tokens = <<>> THEN <<>>
  ELSE (IF KeepToken(Head(tokens)) THEN <<Trim(Head(tokens))>> ELSE <<>>)
         \o FilterTokens(Tail(tokens))

deriveQuery(text) ==
  LET q0 == ToLowerCase(text)
      q1 == Trim(CollapseSpaces(ReplaceNumbers(ReplaceSymbols(q0, 1), 1), 1))
      q2 == Trim(CollapseSpaces(ReplacePunctuation(q1, 1), 1))
  IN  JoinSpace(FilterTokens(SplitSpace(q2, 1, "")))

(***************************************************************************)
(* Tool arguments: an object is a function from its own property names to  *)
(* their values; an absent property is outside its domain.                 *)
(***************************************************************************)
EmptyArgs == [k \in {} |-> 0]

\* { ...a, ...b }
Spread(a, b) ==
  [k \in DOMAIN a \cup DOMAIN b |-> IF k \in DOMAIN b THEN b[k] ELSE a[k]]

\* delete a[k] for every k of ks
Delete(a, ks) == [k \in DOMAIN a \ ks |-> a[k]]

PriceFields ==
  {"min_price", "max_price", "exact_price", "target_price", "min_inclusive", "max_inclusive"}

\* Guardrails, were the two delete of the inclusive flags forgotten
Guardrails_KeepsFlags(args, parsed) ==
  IF parsed.price_mode = "none"
    THEN Delete(Spread(args, [price_mode |-> "none"]),
                {"min_price", "max_price", "exact_price", "target_price"})
    ELSE Spread(args, parsed)

\* what applyPriceGuardrails returns once it has parsed the user's text
Guardrails(args, parsed) ==
  IF parsed.price_mode = "none"
    THEN Delete(Spread(args, [price_mode |-> "none"]), PriceFields)
    ELSE Spread(args, parsed)

applyPriceGuardrails(lastUserText, args) == Guardrails(args, parsePriceIntent(lastUserText))

\* normalizeQuery, were the arguments not spread into what it returns
normalizeQuery_DropsArgs(lastUserText, args) ==
  LET baseQuery == IF "query" \in DOMAIN args /\ Trim(args.query) # ""
                     THEN args.query ELSE lastUserText
  IN  [query |-> deriveQuery(baseQuery)]

\* a query, where the arguments hold one, is a string here, so the typeof test
\* of the source is the test that the property is there
normalizeQuery(lastUserText, args) ==
  LET baseQuery == IF "query" \in DOMAIN args /\ Trim(args.query) # ""
                     THEN args.query ELSE lastUserText
  IN  Spread(args, [query |-> deriveQuery(baseQuery)])

(***************************************************************************)
(* The catalog tool.                                                       *)
(***************************************************************************)
\* buildToolsSchema(): the one function the model may call
buildToolsSchema == << [type |-> "function", name |-> "search_games"] >>

FetchLimit == 50

\* the request fetchCatalogResults(query) posts to the catalog service
fetchCatalogResults(query) == [query |-> query, limit |-> FetchLimit]

\* raw.slice(0, limit)
Slice(raw, limit) ==
  IF limit >= 0
    THEN SubSeq(raw, 1, IF limit < Len(raw) THEN limit ELSE Len(raw))
    ELSE SubSeq(raw, 1, IF Len(raw) + limit > 0 THEN Len(raw) + limit ELSE 0)

DefaultLimit == 5

\* the query searchGames sends: (query ?? "").trim()
searchQuery(args) == IF "query" \in DOMAIN args THEN Trim(args.query) ELSE ""

\* what searchGames(args) returns once the catalog has answered with raw
searchGames(args, raw) ==
  LET q == searchQuery(args)
      limit == IF "limit" \in DOMAIN args THEN args.limit ELSE DefaultLimit
  IN  [query_original |-> q, query_used |-> q, fallback_used |-> FALSE,
       results |-> Slice(raw, limit)]

(***************************************************************************)
(* POST /chat.  One request, from its arrival to its response; every       *)
(* await of a backend call is a state of its own.                          *)
(***************************************************************************)
VARIABLES
  pc,               \* where the handler is
  body,             \* req.body
  lastUser,         \* the latest user message's content
  mustUseTool,      \* shouldUseCatalog(lastUser)
  convo,            \* the conversation sent to the model
  first,            \* the first completion's message, as it arrived
  toolCalls,        \* the resolved tool calls
  tcIndex,          \* the tool call the loop is at
  args,             \* the arguments handed to the handler the loop awaits
  response,         \* the responses sent to the caller
  ollamaRequests,   \* the requests made to the generation backend
  catalogRequests,  \* the requests made to the catalog service
  call,             \* a direct call of one of the helpers: its arguments
  ret,              \* and what it returned
  suspended,        \* the handler's other invocation, stopped at an await
  shared            \* the module's bindings: tools, handlers

vars == <<pc, body, lastUser, mustUseTool, convo, first, toolCalls, tcIndex, args,
          response, ollamaRequests, catalogRequests, call, ret, suspended, shared>>

chatVars == <<pc, body, lastUser, mustUseTool, convo, first, toolCalls, tcIndex, args,
              response, ollamaRequests, catalogRequests>>

None == [none |-> TRUE]

\* const { tools, handlers } = makeCatalogTool(...): the schema, and the own
\* properties of the handler table
Startup == [tools |-> buildToolsSchema, handlers |-> {"search_games"}]

\* handlers[name]: the own property search_games, what Object.prototype lends
\* to every object literal, or undefined
handlers(name) ==
  IF name \in shared.handlers THEN "searchGames"
  ELSE IF name = "__proto__" THEN "notCallable"
  ELSE "undefined"

\* the system message (the first sentence of its content)
SystemPrompt ==
  [role |-> "system",
   content |-> "You are a helpful assistant that can also act as a game store assistant or a friend."]

NoToolsInstruction ==
  [role |-> "system",
   content |-> "Tool results have been provided. Now answer. Do NOT call any tools."]

\* null as an element of messages
JNull == [null |-> TRUE]

\* m.role throws a TypeError for null; find reads it from the last message
\* down to the first one of role user
RECURSIVE RoleReadThrows(_)
RoleReadThrows(messages) ==
  IF messages = <<>> THEN FALSE
  ELSE IF messages[Len(messages)] = JNull THEN TRUE
  ELSE IF "role" \in DOMAIN messages[Len(messages)] /\ messages[Len(messages)].role = "user"
    THEN FALSE
  ELSE RoleReadThrows(SubSeq(messages, 1, Len(messages) - 1))

\* [...messages].reverse().find((m) => m.role === "user")?.content ?? ""
RECURSIVE LatestUserContent(_)
LatestUserContent(messages) ==
  IF messages = <<>> THEN ""
  ELSE LET m == messages[Len(messages)]
       IN  IF "role" \in DOMAIN m /\ m.role = "user"
             THEN (IF "content" \in DOMAIN m THEN m.content ELSE "")
             ELSE LatestUserContent(SubSeq(messages, 1, Len(messages) - 1))

\* !Array.isArray(messages) || messages.length === 0
BadRequest(b) == ~("messages" \in DOMAIN b) \/ b.messages.type # "array" \/ b.messages.list = <<>>

\* msg?.tool_calls ?? []
ProposedToolCalls(msg) == IF "tool_calls" \in DOMAIN msg THEN msg.tool_calls ELSE <<>>

SynthesizedToolCall(text) ==
  [function |-> [name |-> "search_games",
                 arguments |-> [type |-> "object", value |-> [query |-> text, limit |-> 5]]]]

\* the fallback, were the test of toolCalls.length left out
ResolveToolCalls_Always(must, msg, text) ==
  IF must THEN << SynthesizedToolCall(text) >> ELSE ProposedToolCalls(msg)

\* the deterministic fallback
ResolveToolCalls(must, msg, text) ==
  IF must /\ Len(ProposedToolCalls(msg)) = 0
    THEN << SynthesizedToolCall(text) >>
    ELSE ProposedToolCalls(msg)

\* JSON.parse of the argument strings a model sends: an object, a value that
\* is no object, or a SyntaxError
JSONParse(text) ==
  IF text = "{\"query\":\"racing\",\"limit\":1}"
    THEN [kind |-> "object", value |-> [query |-> "racing", limit |-> 1]]
  ELSE IF text = "{}" THEN [kind |-> "object", value |-> EmptyArgs]
  ELSE IF text = "null" THEN [kind |-> "null"]
  ELSE [kind |-> "SyntaxError"]

\* tc?.function?.arguments ?? {}, a string JSON.parse'd, {} when that throws
DecodeArguments(a) ==
  IF a.type = "undefined" THEN [kind |-> "object", value |-> EmptyArgs]
  ELSE IF a.type = "string"
    THEN (IF JSONParse(a.text).kind = "SyntaxError"
            THEN [kind |-> "object", value |-> EmptyArgs]
            ELSE JSONParse(a.text))
  ELSE [kind |-> "object", value |-> a.value]

SafeLimit == 5

\* if (!args.limit) args.limit = 5
DefaultedLimit(a) ==
  IF "limit" \in DOMAIN a /\ a.limit # 0 THEN a ELSE Spread(a, [limit |-> SafeLimit])

ToolMessage(name, result) ==
  [role |-> "tool", tool_name |-> name, name |-> name, content |-> result]

\* the message the model's reply sits at in convo: [system, ...messages, msg]
MsgIndex == Len(body.messages.list) + 2

\* args.limit = 5 writes into the object the loop was given: for a tool call
\* of the model with object arguments that is the object inside msg, which
\* convo and toolCalls both hold
WriteLimit(tcs, i) ==
  IF tcs[i].function.arguments.type = "object"
    THEN [tcs EXCEPT ![i].function.arguments.value = DefaultedLimit(@)]
    ELSE tcs

WriteLimitInConvo(cv, tcs, i) ==
  IF "tool_calls" \in DOMAIN cv[MsgIndex] /\ i <= Len(cv[MsgIndex].tool_calls)
    THEN [cv EXCEPT ![MsgIndex].tool_calls = WriteLimit(tcs, i)]
    ELSE cv

\* The loop over toolCalls from call i up to its next await: the catalog
\* request of a search_games call, or the final completion after the last
\* call; "TypeError" when a step throws.
RECURSIVE RunToolCalls(_, _, _)
RunToolCalls(cv, tcs, i) ==
  IF i > Len(tcs)
    THEN [next |-> "AwaitingFinalCompletion", convo |-> Append(cv, NoToolsInstruction),
          toolCalls |-> tcs, tcIndex |-> i, args |-> None]
  ELSE
    LET name == tcs[i].function.name
        dec  == DecodeArguments(tcs[i].function.arguments)
        tcs1 == WriteLimit(tcs, i)
        cv1  == WriteLimitInConvo(cv, tcs, i)
        a    == applyPriceGuardrails(lastUser,
                  normalizeQuery(lastUser, DefaultedLimit(dec.value)))
    IN  IF dec.kind = "null"
          THEN [next |-> "TypeError", convo |-> cv, toolCalls |-> tcs, tcIndex |-> i,
                args |-> None]
        ELSE IF handlers(name) = "searchGames"
          THEN [next |-> "ExecutingTools", convo |-> cv1, toolCalls |-> tcs1,
                tcIndex |-> i, args |-> a]
        ELSE IF handlers(name) = "notCallable"
          THEN [next |-> "TypeError", convo |-> cv1, toolCalls |-> tcs1, tcIndex |-> i,
                args |-> None]
        ELSE RunToolCalls(Append(cv1, ToolMessage(name, [error |-> name])), tcs1, i + 1)

ServerError == [status |-> 500]
ClientError == [status |-> 400]

\* the state the handler is in after the loop ran from call i to its next await
Continue(cv, tcs, i) ==
  \E r \in { RunToolCalls(cv, tcs, i) } :
      /\ convo' = r.convo
      /\ toolCalls' = r.toolCalls
      /\ tcIndex' = r.tcIndex
      /\ args' = r.args
      /\ IF r.next = "TypeError"
           THEN /\ pc' = "Failed"
                /\ response' = Append(response, ServerError)
                /\ UNCHANGED <<ollamaRequests, catalogRequests>>
         ELSE IF r.next = "ExecutingTools"
           THEN /\ pc' = "ExecutingTools"
                /\ catalogRequests' =
                     Append(catalogRequests, fetchCatalogResults(searchQuery(r.args)))
                /\ UNCHANGED <<response, ollamaRequests>>
         ELSE /\ pc' = "AwaitingFinalCompletion"
              /\ ollamaRequests' =
                   Append(ollamaRequests, [messages |-> r.convo, tools |-> <<>>])
              /\ UNCHANGED <<response, catalogRequests>>

(***************************************************************************)
(* What the outside sends: request bodies, the model's first message, the  *)
(* catalog's replies.                                                      *)
(***************************************************************************)
MaxToolCalls == 2

ChatTexts ==
  { "recommend a co-op game under $15",
    "any game around 20 bucks",
    "hi, how are you" }

UserMessage(text) == [role |-> "user", content |-> text]

Bodies ==
  { EmptyArgs,
    [messages |-> [type |-> "string"]],
    [messages |-> [type |-> "array", list |-> <<>>]],
    [messages |-> [type |-> "array",
                   list |-> << UserMessage("recommend a game"),
                               [role |-> "assistant", content |-> "Which genre?"] >>]] }
  \cup { [messages |-> [type |-> "array", list |-> << UserMessage(t) >>]] : t \in ChatTexts }
  \cup { [messages |-> [type |-> "array", list |-> << m >>]] : m \in {EmptyArgs, JNull} }

ObjectArguments(a) == [type |-> "object", value |-> a]
StringArguments(t) == [type |-> "string", text |-> t]
ToolCall(name, arguments) == [function |-> [name |-> name, arguments |-> arguments]]

ToolCallChoices ==
  { ToolCall("search_games", ObjectArguments([query |-> "co-op dungeon", limit |-> 2])),
    ToolCall("search_games",
             ObjectArguments([query |-> "", price_mode |-> "under",
                              min_price |-> Dec(1, 0), max_price |-> Dec(5, 0)])),
    ToolCall("search_games", ObjectArguments([limit |-> -1])),
    ToolCall("search_games", StringArguments("{\"query\":\"racing\",\"limit\":1}")),
    ToolCall("search_games", StringArguments("{oops")),
    ToolCall("search_games", StringArguments("null")),
    ToolCall("lookup_price", [type |-> "undefined"]),
    ToolCall("__proto__", ObjectArguments(EmptyArgs)) }

SeqsUpTo(S, n) == UNION { [1..k -> S] : k \in 0..n }

FirstMessages ==
  { [role |-> "assistant", content |-> "Hello!"] }
  \cup { [role |-> "assistant", content |-> "", tool_calls |-> tcs] :
           tcs \in SeqsUpTo(ToolCallChoices, MaxToolCalls) }

CatalogItems ==
  << [id |-> 1, price |-> "$19.99"],
     [id |-> 2, price |-> "contact us"],
     [id |-> 3, price |-> "4.50"] >>

\* the bodies of the catalog's 200 replies: data.results an array, or missing
CatalogData == { [results |-> <<>>], [results |-> CatalogItems], EmptyArgs }

\* Array.isArray(data?.results) ? data.results : []
ResultsOf(data) == IF "results" \in DOMAIN data THEN data.results ELSE <<>>

FinalReply == [message |-> [role |-> "assistant", content |-> "Here you go."], model |-> "qwen3:8b"]

(***************************************************************************)
(* The handler's steps.                                                    *)
(***************************************************************************)
Init ==
  /\ pc = "Start"
  /\ body \in Bodies
  /\ lastUser = ""
  /\ mustUseTool = FALSE
  /\ convo = <<>>
  /\ first = None
  /\ toolCalls = <<>>
  /\ tcIndex = 0
  /\ args = None
  /\ response = <<>>
  /\ ollamaRequests = <<>>
  /\ catalogRequests = <<>>
  /\ call = None
  /\ ret = None
  /\ suspended = None
  /\ shared = Startup

\* from the request's arrival to the first completion's await
Start ==
  /\ pc = "Start"
  /\ IF BadRequest(body)
       THEN /\ pc' = "Failed"
            /\ response' = Append(response, ClientError)
            /\ UNCHANGED <<lastUser, mustUseTool, convo, ollamaRequests>>
       ELSE IF RoleReadThrows(body.messages.list)
         THEN /\ pc' = "Failed"
              /\ response' = Append(response, ServerError)
              /\ UNCHANGED <<lastUser, mustUseTool, convo, ollamaRequests>>
       ELSE /\ lastUser' = LatestUserContent(body.messages.list)
            /\ mustUseTool' = shouldUseCatalog(lastUser')
            /\ convo' = <<SystemPrompt>> \o body.messages.list
            /\ ollamaRequests' =
                 Append(ollamaRequests, [messages |-> convo', tools |-> shared.tools])
            /\ pc' = "AwaitingFirstCompletion"
            /\ UNCHANGED response
  /\ UNCHANGED <<body, first, toolCalls, tcIndex, args, catalogRequests, call, ret, suspended, shared>>

\* the first completion arrives: resolve the tool calls, run the loop to its
\* next await
FirstCompletion(msgs) ==
  /\ pc = "AwaitingFirstCompletion"
  /\ \E msg \in msgs :
       /\ first' = msg
       /\ Continue(Append(convo, msg), ResolveToolCalls(mustUseTool, msg, lastUser), 1)
  /\ UNCHANGED <<body, lastUser, mustUseTool, call, ret, suspended, shared>>

FirstCompletionReturns == FirstCompletion(FirstMessages)

\* the catalog answers the search the loop awaits: append the tool message,
\* run the loop on
CatalogReturns ==
  /\ pc = "ExecutingTools"
  /\ \E data \in CatalogData :
       Continue(Append(convo, ToolMessage(toolCalls[tcIndex].function.name,
                                          searchGames(args, ResultsOf(data)))),
                toolCalls, tcIndex + 1)
  /\ UNCHANGED <<body, lastUser, mustUseTool, first, call, ret, suspended, shared>>

\* the final completion arrives
FinalCompletionReturns ==
  /\ pc = "AwaitingFinalCompletion"
  /\ pc' = "Done"
  /\ response' = Append(response, [status |-> 200, answer |-> FinalReply.message.content,
                                   model |-> FinalReply.model])
  /\ UNCHANGED <<body, lastUser, mustUseTool, convo, first, toolCalls, tcIndex, args,
                 ollamaRequests, catalogRequests, call, ret, suspended, shared>>

\* OllamaFails, were the failed completion requested again
OllamaFails_Retries ==
  /\ pc \in {"AwaitingFirstCompletion", "AwaitingFinalCompletion"}
  /\ ollamaRequests' = Append(ollamaRequests, ollamaRequests[Len(ollamaRequests)])
  /\ UNCHANGED <<pc, body, lastUser, mustUseTool, convo, first, toolCalls, tcIndex, args,
                 response, catalogRequests, call, ret, suspended, shared>>

\* ollamaChat throws (a status that is not ok, or fetch rejects): the catch
OllamaFails ==
  /\ pc \in {"AwaitingFirstCompletion", "AwaitingFinalCompletion"}
  /\ pc' = "Failed"
  /\ response' = Append(response, ServerError)
  /\ UNCHANGED <<body, lastUser, mustUseTool, convo, first, toolCalls, tcIndex, args,
                 ollamaRequests, catalogRequests, call, ret, suspended, shared>>

\* fetchCatalogResults throws: the catch
CatalogFails ==
  /\ pc = "ExecutingTools"
  /\ pc' = "Failed"
  /\ response' = Append(response, ServerError)
  /\ UNCHANGED <<body, lastUser, mustUseTool, convo, first, toolCalls, tcIndex, args,
                 ollamaRequests, catalogRequests, call, ret, suspended, shared>>

Next ==
  \/ Start
  \/ FirstCompletionReturns
  \/ CatalogReturns
  \/ FinalCompletionReturns
  \/ OllamaFails
  \/ CatalogFails

Spec == Init /\ [][Next]_vars

(***************************************************************************)
(* Two requests in flight.  Node runs one invocation of the handler at a   *)
(* time, from one await to the next; at an await the other invocation may  *)
(* run.  The invocation that runs has its locals in the variables, the     *)
(* other one in suspended; both read the module's bindings in shared.      *)
(***************************************************************************)
\* the locals of the invocation that runs, and what it has sent
Running ==
  [pc |-> pc, body |-> body, lastUser |-> lastUser, mustUseTool |-> mustUseTool,
   convo |-> convo, first |-> first, toolCalls |-> toolCalls, tcIndex |-> tcIndex,
   args |-> args, response |-> response, ollamaRequests |-> ollamaRequests,
   catalogRequests |-> catalogRequests]

\* a request that arrived and whose handler has not run yet
Arrived(b) ==
  [pc |-> "Start", body |-> b, lastUser |-> "", mustUseTool |-> FALSE, convo |-> <<>>,
   first |-> None, toolCalls |-> <<>>, tcIndex |-> 0, args |-> None, response |-> <<>>,
   ollamaRequests |-> <<>>, catalogRequests |-> <<>>]

ConcurrentBodies ==
  { [messages |-> [type |-> "array", list |-> << UserMessage(t) >>]] :
      t \in { "recommend a co-op game under $15", "hi, how are you" } }

\* the model's replies with one tool call at most
ConcurrentMessages == { msg \in FirstMessages : Len(ProposedToolCalls(msg)) <= 1 }

InitConcurrent ==
  /\ pc = "Start"
  /\ body \in ConcurrentBodies
  /\ lastUser = ""
  /\ mustUseTool = FALSE
  /\ convo = <<>>
  /\ first = None
  /\ toolCalls = <<>>
  /\ tcIndex = 0
  /\ args = None
  /\ response = <<>>
  /\ ollamaRequests = <<>>
  /\ catalogRequests = <<>>
  /\ call = None
  /\ ret = None
  /\ suspended \in { Arrived(b) : b \in ConcurrentBodies }
  /\ shared = Startup

\* Switch, were args a binding of the module and not a local of the loop
Switch_SharedArgs ==
  /\ suspended # None
  /\ suspended' = Running
  /\ pc' = suspended.pc
  /\ body' = suspended.body
  /\ lastUser' = suspended.lastUser
  /\ mustUseTool' = suspended.mustUseTool
  /\ convo' = suspended.convo
  /\ first' = suspended.first
  /\ toolCalls' = suspended.toolCalls
  /\ tcIndex' = suspended.tcIndex
  /\ response' = suspended.response
  /\ ollamaRequests' = suspended.ollamaRequests
  /\ catalogRequests' = suspended.catalogRequests
  /\ UNCHANGED <<args, call, ret, shared>>

\* the invocation that runs stops at its await (or has ended) and the other
\* one runs on: every binding of the handler is a local of its invocation
Switch ==
  /\ suspended # None
  /\ suspended' = Running
  /\ pc' = suspended.pc
  /\ body' = suspended.body
  /\ lastUser' = suspended.lastUser
  /\ mustUseTool' = suspended.mustUseTool
  /\ convo' = suspended.convo
  /\ first' = suspended.first
  /\ toolCalls' = suspended.toolCalls
  /\ tcIndex' = suspended.tcIndex
  /\ args' = suspended.args
  /\ response' = suspended.response
  /\ ollamaRequests' = suspended.ollamaRequests
  /\ catalogRequests' = suspended.catalogRequests
  /\ UNCHANGED <<call, ret, shared>>

FirstCompletionReturnsConcurrently == FirstCompletion(ConcurrentMessages)

NextConcurrent ==
  \/ Start
  \/ FirstCompletionReturnsConcurrently
  \/ CatalogReturns
  \/ FinalCompletionReturns
  \/ OllamaFails
  \/ CatalogFails
  \/ Switch

SpecConcurrent == InitConcurrent /\ [][NextConcurrent]_vars

(***************************************************************************)
(* Direct calls of the helpers nlp.js exports: one call, its arguments in   *)
(* call, what it returned in ret.                                           *)
(***************************************************************************)
Returned(v) == [value |-> v]

\* a[k] for the k of ks that a holds
Restrict(a, ks) == [k \in DOMAIN a \cap ks |-> a[k]]

\* user texts with no price phrase, and with one of every mode
GuardrailTexts ==
  { "hi, how are you",
    "recommend a co-op game",
    "something cheap, 15 dollars max",
    "recommend a co-op game under $15",
    "any game around 20 bucks",
    "between $15 and $8.50",
    "racing games, at least 7.50",
    "a game for 2 players" }

\* the price fields a model may invent
InventedPrice ==
  [price_mode |-> "range",
   min_price |-> [n |-> 1, d |-> 0], max_price |-> [n |-> 99, d |-> 0],
   exact_price |-> [n |-> 5, d |-> 0], target_price |-> [n |-> 7, d |-> 0],
   min_inclusive |-> TRUE, max_inclusive |-> TRUE]

\* the argument sets a model may propose: a query and a limit, and any of the
\* price fields
Proposals ==
  { Spread([query |-> "co-op rpg", limit |-> 3], Restrict(InventedPrice, ks)) :
      ks \in SUBSET (DOMAIN InventedPrice) }

DeriveTexts ==
  { "recommend a co-op game under $15",
    "any game around 20 bucks",
    "hi, how are you",
    "Show me RACING games <= $30",
    "price >= 10 and < 20",
    "tower-defense, please!",
    "  dungeon   crawler  ",
    "what's new?",
    "v1.5 beta",
    "halo_2023",
    "15_000",
    "_15",
    "co-op",
    "" }

\* numerals \d+(?:\.\d+)? and the numbers they denote
Numerals ==
  { [text |-> "8", value |-> [n |-> 8, d |-> 0]],
    [text |-> "15", value |-> [n |-> 15, d |-> 0]],
    [text |-> "8.50", value |-> [n |-> 85, d |-> 1]],
    [text |-> "15.0", value |-> [n |-> 15, d |-> 0]] }

CurrencyMarks == { "", "$", "$ " }

\* what a text may hold before and after a "between A and B"
Before ==
  { "", "games ", "under $5 or ", "3-4 or ", "between 1 to 2 and ", "between 1 and 2 or " }
After == { "", " dollars", " or over 30" }

BetweenPhrase(cur, a, b) == "between " \o cur \o a.text \o " and " \o cur \o b.text

\* price phrases, the documented ones of every mode in the spellings the
\* patterns take, and two texts that are no price phrase: the text, the mode
\* it is a phrase of, its keyword
PricePhrases ==
  { [text |-> "between 5 and 10", mode |-> "range", kw |-> "between"],
    [text |-> "$8-$15", mode |-> "range", kw |-> "-"],
    [text |-> "costs 10", mode |-> "exact", kw |-> "costs"],
    [text |-> "priced at 9.99", mode |-> "exact", kw |-> "priced at"],
    [text |-> "exactly 30", mode |-> "exact", kw |-> "exactly"],
    [text |-> "for $12", mode |-> "exact", kw |-> "for"],
    [text |-> "MORE than 10", mode |-> "above", kw |-> "more than"],
    [text |-> "over $20", mode |-> "above", kw |-> "over"],
    [text |-> "> 5", mode |-> "above", kw |-> ">"],
    [text |-> ">= 5", mode |-> "above", kw |-> ">="],
    [text |-> "At  least 7", mode |-> "above", kw |-> "at least"],
    [text |-> "under $15", mode |-> "under", kw |-> "under"],
    [text |-> "Below 8", mode |-> "under", kw |-> "below"],
    [text |-> "< 9", mode |-> "under", kw |-> "<"],
    [text |-> "<=9", mode |-> "under", kw |-> "<="],
    [text |-> "less than 3.5", mode |-> "under", kw |-> "less than"],
    [text |-> "almost 6", mode |-> "closest", kw |-> "almost"],
    [text |-> "around 20", mode |-> "closest", kw |-> "around"],
    [text |-> "about 40", mode |-> "closest", kw |-> "about"],
    [text |-> "near 4", mode |-> "closest", kw |-> "near"],
    [text |-> "close to $9", mode |-> "closest", kw |-> "close to"],
    [text |-> "cheap games", mode |-> "none", kw |-> ""],
    [text |-> "15 dollars", mode |-> "none", kw |-> ""] }

MaxPhrases == 2

\* the phrases of ps, " or " between them
RECURSIVE JoinPhrases(_)
JoinPhrases(ps) ==
  IF ps = <<>> THEN ""
  ELSE IF Len(ps) = 1 THEN ps[1].text
  ELSE ps[1].text \o " or " \o JoinPhrases(Tail(ps))

\* the argument sets a model may propose: no query, a blank one, keywords, or
\* keywords and a price phrase; a limit or none; price fields or none
QueryProposals ==
  { Spread(Spread(q, l), pr) :
      q \in { EmptyArgs, [query |-> ""], [query |-> "   "], [query |-> "co-op dungeon"],
              [query |-> "racing under $20"] },
      l \in { EmptyArgs, [limit |-> 3] },
      pr \in { EmptyArgs, [price_mode |-> "none"], InventedPrice } }

DirectCalls ==
  { [op |-> "normalizeQuery", text |-> t, args |-> a] :
      t \in GuardrailTexts, a \in QueryProposals }
  \cup
  { [op |-> "parsePriceIntent", phrases |-> ps, text |-> JoinPhrases(ps)] :
      ps \in SeqsUpTo(PricePhrases, MaxPhrases) }
  \cup
  { [op |-> "applyPriceGuardrails", text |-> t, args |-> a] :
      t \in GuardrailTexts, a \in Proposals }
  \cup { [op |-> "deriveQuery", text |-> t] : t \in DeriveTexts }
  \cup { [op |-> "parsePriceIntent", before |-> pre, A |-> a.value, B |-> b.value,
          text |-> pre \o BetweenPhrase(cur, a, b) \o post] :
           pre \in Before, cur \in CurrencyMarks, a \in Numerals, b \in Numerals,
           post \in After }

InitDirect ==
  /\ pc = "Direct"
  /\ body = EmptyArgs
  /\ lastUser = ""
  /\ mustUseTool = FALSE
  /\ convo = <<>>
  /\ first = None
  /\ toolCalls = <<>>
  /\ tcIndex = 0
  /\ args = None
  /\ response = <<>>
  /\ ollamaRequests = <<>>
  /\ catalogRequests = <<>>
  /\ call \in DirectCalls
  /\ ret = None
  /\ suspended = None
  /\ shared = Startup

CallApplyPriceGuardrails ==
  /\ call.op = "applyPriceGuardrails"
  /\ ret = None
  /\ ret' = Returned(applyPriceGuardrails(call.text, call.args))
  /\ UNCHANGED <<chatVars, call, suspended, shared>>

CallDeriveQuery ==
  /\ call.op = "deriveQuery"
  /\ ret = None
  /\ ret' = Returned(deriveQuery(call.text))
  /\ UNCHANGED <<chatVars, call, suspended, shared>>

CallNormalizeQuery ==
  /\ call.op = "normalizeQuery"
  /\ ret = None
  /\ ret' = Returned(normalizeQuery(call.text, call.args))
  /\ UNCHANGED <<chatVars, call, suspended, shared>>

CallParsePriceIntent ==
  /\ call.op = "parsePriceIntent"
  /\ ret = None
  /\ ret' = Returned(parsePriceIntent(call.text))
  /\ UNCHANGED <<chatVars, call, suspended, shared>>

NextDirect ==
  \/ CallApplyPriceGuardrails
  \/ CallDeriveQuery
  \/ CallNormalizeQuery
  \/ CallParsePriceIntent

SpecDirect == InitDirect /\ [][NextDirect]_vars

(***************************************************************************)
(* Properties of the helpers, checked under SpecDirect.                    *)
(***************************************************************************)
GuardrailsReturned == call.op = "applyPriceGuardrails" /\ ret # None

\* C1: when parsePriceIntent yields none for the user's text,
\* applyPriceGuardrails returns arguments whose price_mode is "none" and that
\* hold none of min_price, max_price, exact_price, target_price,
\* min_inclusive, max_inclusive, whatever the proposal carried.
C1_NoneClearsPriceFields ==
  (GuardrailsReturned /\ parsePriceIntent(call.text) = PriceNone)
    => /\ "price_mode" \in DOMAIN ret.value
       /\ ret.value.price_mode = "none"
       /\ DOMAIN ret.value \cap PriceFields = {}

\* a proposal that carries every price field met a text with no price phrase
C1_Witness ==
  /\ GuardrailsReturned
  /\ parsePriceIntent(call.text) = PriceNone
  /\ PriceFields \subseteq DOMAIN call.args
  /\ call.args.price_mode = "range"

\* C2: when parsePriceIntent yields an intent other than none, the price
\* fields of what applyPriceGuardrails returns are exactly the parser's
\* output: the parser's value for every field it produced, and no other price
\* field, whatever the proposal carried.
C2_PriceFieldsAreTheParsers ==
  (GuardrailsReturned /\ parsePriceIntent(call.text) # PriceNone)
    => Restrict(ret.value, PriceFields \cup {"price_mode"}) = parsePriceIntent(call.text)

\* C9: deriveQuery(deriveQuery(x)) = deriveQuery(x)
C9_DeriveQueryIdempotent ==
  (call.op = "deriveQuery" /\ ret # None) => deriveQuery(ret.value) = ret.value

\* the range that "between A and B" stands for
RangeOf(a, b) ==
  [price_mode |-> "range",
   min_price |-> IF DecLeq(a, b) THEN a ELSE b,
   max_price |-> IF DecLeq(a, b) THEN b ELSE a]

ParseReturned == call.op = "parsePriceIntent" /\ "before" \in DOMAIN call /\ ret # None

\* C10 as stated: for every text that holds "between A and B", whatever else
\* it holds, parsePriceIntent returns the range min(A, B) .. max(A, B).
C10_EveryBetweenPhrase ==
  ParseReturned
    => /\ ret.value = RangeOf(call.A, call.B)
       /\ DecLeq(ret.value.min_price, ret.value.max_price)

\* C10: for every text whose first "between X and Y" or "between X to Y"
\* phrase is "between A and B", whatever other price phrases it holds,
\* parsePriceIntent returns the range min(A, B) .. max(A, B), so
\* min_price <= max_price.
C10_FirstBetweenPhrase ==
  (ParseReturned /\ ~MatchBetween(call.before).found)
    => /\ ret.value = RangeOf(call.A, call.B)
       /\ DecLeq(ret.value.min_price, ret.value.max_price)

\* A > B, behind another price phrase
C10_Witness ==
  /\ ParseReturned
  /\ call.before = "under $5 or "
  /\ DecLt(call.B, call.A)
  /\ ret.value.price_mode = "range"

(***************************************************************************)
(* Properties of POST /chat, checked under Spec.                            *)
(***************************************************************************)
\* the tool messages of a conversation that carry a search_games result
SearchMessages(cv) ==
  { k \in 1..Len(cv) :
      /\ "role" \in DOMAIN cv[k]
      /\ cv[k].role = "tool"
      /\ cv[k].name = "search_games"
      /\ "results" \in DOMAIN cv[k].content }

\* C3: when shouldUseCatalog fired on the latest user message and the final
\* completion has been requested, a search_games result is in the
\* conversation that was sent for it, whatever the model's first message was.
C3_Grounding ==
  (mustUseTool /\ pc \in {"AwaitingFinalCompletion", "Done"})
    => SearchMessages(ollamaRequests[Len(ollamaRequests)].messages) # {}

\* C4: once the first completion has arrived, the resolved tool calls are one
\* search_games call with {query: latest user text, limit: 5} when the model
\* proposed none and the heuristic fired, and otherwise the model's own, call
\* by call (limit: 5 written into the arguments the loop has reached).
C4_ToolCallResolution ==
  first # None =>
    IF mustUseTool /\ Len(ProposedToolCalls(first)) = 0
      THEN /\ Len(toolCalls) = 1
           /\ toolCalls[1].function.name = "search_games"
           /\ toolCalls[1].function.arguments.value = [query |-> lastUser, limit |-> 5]
      ELSE /\ Len(toolCalls) = Len(ProposedToolCalls(first))
           /\ \A i \in 1..Len(toolCalls) :
                toolCalls[i] \in { first.tool_calls[i], WriteLimit(first.tool_calls, i)[i] }

\* the heuristic fired, the model proposed nothing, a call was synthesized
C4_Witness ==
  /\ first # None
  /\ mustUseTool
  /\ ProposedToolCalls(first) = <<>>
  /\ Len(toolCalls) = 1
  /\ pc = "ExecutingTools"

\* C5: a search result for a non-empty query that holds no item is the
\* result of the retry with the empty query: fallback_used is true and
\* query_used is "", query_original still the requested query.
C5_FallbackSearch ==
  \A k \in SearchMessages(convo) :
     (convo[k].content.query_original # "" /\ convo[k].content.results = <<>>)
       => /\ convo[k].content.fallback_used = TRUE
          /\ convo[k].content.query_used = ""

\* The step in which the catalog answers the awaited search, and the result
\* search_games returns in it.
SearchReturns == pc = "ExecutingTools" /\ Len(convo') > Len(convo)
SearchResult == convo'[Len(convo) + 1].content

\* What spec.md says of an item's price: "$19.99" and "4.50" parse, "contact
\* us" does not.
StripDollar(p) == IF CharAt(p, 1) = "$" THEN SubSeq(p, 2, Len(p)) ELSE p
PriceParses(item) ==
  IsDigit(CharAt(StripDollar(item.price), 1))
    /\ NumEnd(StripDollar(item.price), 1) = Len(StripDollar(item.price)) + 1
PriceOf(item) == Number(StripDollar(item.price))

DecSub(a, b) ==
  IF a.d >= b.d THEN Dec(a.n - b.n * Pow10(a.d - b.d), a.d)
  ELSE Dec(a.n * Pow10(b.d - a.d) - b.n, b.d)
DecAbs(a) == IF a.n < 0 THEN [n |-> 0 - a.n, d |-> a.d] ELSE a

\* the "small absolute tolerance" of the exact mode: one cent
Tolerance == [n |-> 1, d |-> 2]

\* the price p satisfies the constraint of the arguments a
Satisfies(p, a) ==
  CASE a.price_mode = "exact" -> DecLeq(DecAbs(DecSub(p, a.exact_price)), Tolerance)
    [] a.price_mode = "range" -> DecLeq(a.min_price, p) /\ DecLeq(p, a.max_price)
    [] a.price_mode = "above" ->
         IF a.min_inclusive THEN DecLeq(a.min_price, p) ELSE DecLt(a.min_price, p)
    [] a.price_mode = "under" ->
         IF a.max_inclusive THEN DecLeq(p, a.max_price) ELSE DecLt(p, a.max_price)
    [] OTHER -> TRUE

\* C6: every item search_games returns for arguments of mode exact, range,
\* above or under has a price that parses and satisfies the constraint.
C6_PriceFilter ==
  [][(SearchReturns /\ args.price_mode \in {"exact", "range", "above", "under"})
       => \A k \in 1..Len(SearchResult.results) :
            /\ PriceParses(SearchResult.results[k])
            /\ Satisfies(PriceOf(SearchResult.results[k]), args)]_vars

\* what the items are ranked by, ascending
RankKey(p, a) ==
  CASE a.price_mode = "closest" -> DecAbs(DecSub(p, a.target_price))
    [] a.price_mode = "under" -> DecSub(a.max_price, p)
    [] a.price_mode = "above" -> DecSub(p, a.min_price)
    [] OTHER -> p

\* C7: the items search_games returns are in the order of the price mode of
\* its arguments: no item comes before one of a smaller rank key.
C7_Ranking ==
  [][SearchReturns
       => \A i, j \in 1..Len(SearchResult.results) :
            (i < j /\ PriceParses(SearchResult.results[i])
                   /\ PriceParses(SearchResult.results[j]))
              => DecLeq(RankKey(PriceOf(SearchResult.results[i]), args),
                        RankKey(PriceOf(SearchResult.results[j]), args))]_vars

\* C8: search_games returns at most args.limit items.
C8_AtMostLimit ==
  [][SearchReturns => Len(SearchResult.results) <= args.limit]_vars

(***************************************************************************)
(* Properties of parsePriceIntent on texts made of price phrases, checked   *)
(* under SpecDirect.                                                        *)
(***************************************************************************)
PhrasesParsed == call.op = "parsePriceIntent" /\ "phrases" \in DOMAIN call /\ ret # None

\* the phrases of the call that are phrases of mode
PhrasesOf(mode) == { k \in 1..Len(call.phrases) : call.phrases[k].mode = mode }

\* the keyword of the first phrase of mode in the text
MatchedKeyword(mode) ==
  call.phrases[CHOOSE k \in PhrasesOf(mode) : \A j \in PhrasesOf(mode) : k <= j].kw

\* C11: for a text resolved to mode above, min_inclusive is true exactly when
\* the matched phrase is ">=" or "at least"; for a text resolved to mode
\* under, max_inclusive is true exactly when the matched phrase is "<=".
C11_InclusiveFlags ==
  PhrasesParsed =>
    /\ ret.value.price_mode = "above"
         => /\ PhrasesOf("above") # {}
            /\ ret.value.min_inclusive = (MatchedKeyword("above") \in {">=", "at least"})
    /\ ret.value.price_mode = "under"
         => /\ PhrasesOf("under") # {}
            /\ ret.value.max_inclusive = (MatchedKeyword("under") = "<=")

\* "at least" matched, behind it an exclusive phrase of the same mode
C11_Witness ==
  /\ PhrasesParsed
  /\ Len(call.phrases) = 2
  /\ call.phrases[1].kw = "at least"
  /\ call.phrases[2].kw = "over"
  /\ ret.value.price_mode = "above"
  /\ ret.value.min_inclusive = TRUE

PriceModes == <<"range", "exact", "above", "under", "closest">>

\* the mode that comes first in the order of precedence among the phrases of
\* the call, "none" when it holds no price phrase
FirstMode ==
  IF \A k \in 1..Len(PriceModes) : PhrasesOf(PriceModes[k]) = {} THEN "none"
  ELSE PriceModes[CHOOSE k \in 1..Len(PriceModes) :
                    /\ PhrasesOf(PriceModes[k]) # {}
                    /\ \A j \in 1..(k - 1) : PhrasesOf(PriceModes[j]) = {}]

WellFormed(b) ==
  /\ "messages" \in DOMAIN b
  /\ b.messages.type = "array"
  /\ b.messages.list # <<>>
  /\ \A k \in 1..Len(b.messages.list) :
       {"role", "content"} \subseteq DOMAIN b.messages.list[k]

\* C13: a request whose body carries no non-empty list of role/content
\* messages ends in Failed with one client error (400), and no request is made
\* to the generation backend or to the catalog for it.
C13_MalformedBodyRejected ==
  (~WellFormed(body) /\ pc # "Start")
    => /\ pc = "Failed"
       /\ response = << ClientError >>
       /\ ollamaRequests = <<>>
       /\ catalogRequests = <<>>

Awaiting == {"AwaitingFirstCompletion", "ExecutingTools", "AwaitingFinalCompletion"}

\* the resolved tool calls up to call n that name search_games
SearchCallsUpTo(n) ==
  { i \in 1..n : i <= Len(toolCalls) /\ toolCalls[i].function.name = "search_games" }

\* every backend call the handler has reached was requested once
RequestedOnce ==
  /\ pc = "Start" => ollamaRequests = <<>> /\ catalogRequests = <<>>
  /\ pc = "AwaitingFirstCompletion" => Len(ollamaRequests) = 1 /\ catalogRequests = <<>>
  /\ pc = "ExecutingTools"
       => Len(ollamaRequests) = 1
          /\ Len(catalogRequests) = Cardinality(SearchCallsUpTo(tcIndex))
  /\ pc \in {"AwaitingFinalCompletion", "Done"}
       => Len(ollamaRequests) = 2
          /\ Len(catalogRequests) = Cardinality(SearchCallsUpTo(Len(toolCalls)))

\* C14: a backend call is requested once, not again when it fails; the step
\* in which a request that awaits a backend fails makes no request and sends
\* the one response of the request, a server error (500); after Failed
\* nothing more happens: no backend call, no second response.
C14_BackendFailure ==
  [][/\ pc # "Failed"
     /\ RequestedOnce
     /\ RequestedOnce'
     /\ (pc \in Awaiting /\ pc' = "Failed")
          => /\ response = <<>>
             /\ response' = << [status |-> 500] >>
             /\ ollamaRequests' = ollamaRequests
             /\ catalogRequests' = catalogRequests]_vars

\* the final completion failed, after a search that succeeded
C14_Witness ==
  /\ pc = "Failed"
  /\ Len(ollamaRequests) = 2
  /\ Len(catalogRequests) = 1
  /\ response = << [status |-> 500] >>

(***************************************************************************)
(* Properties of the tool loop, checked under Spec.                        *)
(***************************************************************************)
\* C15: a tool call whose name has no registered handler never aborts the
\* request: the loop does not fail at it, and once past it the conversation
\* holds, at the call's place, one tool message of that name whose content is
\* an error.
C15_UnknownToolRecovered ==
  \A i \in 1..Len(toolCalls) :
    toolCalls[i].function.name # "search_games"
      => /\ ~(pc = "Failed" /\ tcIndex = i)
         /\ tcIndex > i
              => /\ convo[MsgIndex + i].role = "tool"
                 /\ convo[MsgIndex + i].name = toolCalls[i].function.name
                 /\ "error" \in DOMAIN convo[MsgIndex + i].content

\* C16: decoding a tool call's arguments never fails the request: a request
\* that failed at a search_games call had requested that call's search (the
\* failure is the catalog's).
C16_DecodingNeverFails ==
  (/\ pc = "Failed"
   /\ tcIndex \in 1..Len(toolCalls)
   /\ toolCalls[tcIndex].function.name = "search_games")
    => Len(catalogRequests) = Cardinality(SearchCallsUpTo(tcIndex))

\* C17: a request whose text the heuristic does not fire on and whose first
\* completion proposes no tool call is answered with one completion: no tool
\* message, no catalog request, one request to the generation backend.
C17_SingleCompletion ==
  (pc = "Done" /\ ~mustUseTool /\ ProposedToolCalls(first) = <<>>)
    => /\ toolCalls = <<>>
       /\ catalogRequests = <<>>
       /\ \A k \in 1..Len(convo) : "role" \in DOMAIN convo[k] => convo[k].role # "tool"
       /\ Len(ollamaRequests) = 1

(***************************************************************************)
(* Two requests in flight, checked under SpecConcurrent.                   *)
(***************************************************************************)
\* what a request holds when it runs alone, as its body, the model's reply to
\* it and its own tool call determine it: its conversation, its args, its
\* response
AsIfAlone(r) ==
  /\ r.pc = "Start" => r.convo = <<>> /\ r.response = <<>> /\ r.ollamaRequests = <<>>
  /\ r.pc # "Start"
       => /\ r.lastUser = LatestUserContent(r.body.messages.list)
          /\ r.mustUseTool = shouldUseCatalog(r.lastUser)
          /\ SubSeq(r.convo, 1, Len(r.body.messages.list) + 1)
               = <<SystemPrompt>> \o r.body.messages.list
          /\ r.ollamaRequests[1]
               = [messages |-> <<SystemPrompt>> \o r.body.messages.list,
                  tools |-> buildToolsSchema]
  /\ r.first # None
       => /\ Len(r.toolCalls) = Len(ResolveToolCalls(r.mustUseTool, r.first, r.lastUser))
          /\ \A i \in 1..Len(r.toolCalls) :
               r.toolCalls[i].function.name
                 = ResolveToolCalls(r.mustUseTool, r.first, r.lastUser)[i].function.name
          /\ Restrict(r.convo[Len(r.body.messages.list) + 2], {"role", "content"})
               = Restrict(r.first, {"role", "content"})
  /\ r.pc = "ExecutingTools"
       => /\ r.args =
               applyPriceGuardrails(r.lastUser,
                 normalizeQuery(r.lastUser,
                   DefaultedLimit(
                     DecodeArguments(r.toolCalls[r.tcIndex].function.arguments).value)))
          /\ r.catalogRequests[Len(r.catalogRequests)]
               = fetchCatalogResults(searchQuery(r.args))
  /\ r.pc = "Done"
       => r.response = << [status |-> 200, answer |-> FinalReply.message.content,
                           model |-> FinalReply.model] >>
  /\ r.pc = "Failed" => r.response \in { <<ServerError>>, <<ClientError>> }
  /\ r.pc \notin {"Done", "Failed"} => r.response = <<>>

\* a step is a step of the invocation that runs, which leaves the other one
\* as it was, or the two change places and neither changes
Isolated ==
  \/ suspended' = suspended
  \/ suspended' = Running /\ Running' = suspended

\* C18: two requests in flight share no mutable state: under every
\* interleaving of their steps each request's conversation, args and response
\* are those of the request run alone, a step of one request leaves the other
\* one's state as it was, and the tool schema and the handler table are never
\* written after startup.
C18_RequestsAreIsolated ==
  /\ [](AsIfAlone(Running) /\ AsIfAlone(suspended))
  /\ [][Isolated /\ shared' = shared]_vars

\* both requests await the catalog, each with its own args
C18_Witness ==
  /\ suspended # None
  /\ pc = "ExecutingTools"
  /\ suspended.pc = "ExecutingTools"
  /\ body # suspended.body
  /\ args # suspended.args

(***************************************************************************)
(* The order of a request's backend calls, checked under Spec.             *)
(***************************************************************************)
\* the conversation of the first completion
FirstConversation == <<SystemPrompt>> \o body.messages.list

\* what a request that is Done has sent
DoneFlow ==
  /\ Len(ollamaRequests) = 2
  /\ ollamaRequests[1] = [messages |-> FirstConversation, tools |-> buildToolsSchema]
  /\ ollamaRequests[2] = [messages |-> convo, tools |-> <<>>]
  /\ Len(convo) = MsgIndex + Len(toolCalls) + 1
  /\ SubSeq(convo, 1, MsgIndex - 1) = FirstConversation
  /\ convo[MsgIndex] = first
  /\ \A i \in 1..Len(toolCalls) :
       /\ convo[MsgIndex + i].role = "tool"
       /\ convo[MsgIndex + i].name = toolCalls[i].function.name
       /\ toolCalls[i].function.name
            = ResolveToolCalls(mustUseTool, first, lastUser)[i].function.name
  /\ Len(toolCalls) = Len(ResolveToolCalls(mustUseTool, first, lastUser))
  /\ convo[Len(convo)] = NoToolsInstruction
  /\ Len(catalogRequests) = Cardinality(SearchCallsUpTo(Len(toolCalls)))

\* a step that calls the catalog: the first completion has returned, the
\* final one is not issued, the call is the one call of the next search_games
\* call of the list, made once the calls before it have their tool messages
CatalogCallInOrder ==
  catalogRequests' # catalogRequests
    => /\ first' # None
       /\ Len(ollamaRequests) = 1
       /\ Len(ollamaRequests') = 1
       /\ Len(catalogRequests') = Len(catalogRequests) + 1
       /\ tcIndex' > tcIndex
       /\ toolCalls'[tcIndex'].function.name = "search_games"
       /\ Len(catalogRequests') = Cardinality({ i \in 1..tcIndex' :
                                     toolCalls'[i].function.name = "search_games" })
       /\ Len(convo') = Len(body.messages.list) + 1 + tcIndex'

\* C19: a request that reaches Done made one first completion with the tool
\* schema and the conversation [system, the request's messages], then
\* executed the resolved tool calls one after another in the order of the
\* list, then made one final completion with tools disabled whose
\* conversation is the first one, the model's message, one tool message for
\* each resolved tool call in the order of the calls, and last the
\* instruction; no catalog call is made before the first completion returned
\* or after the final one was issued.
C19_Flow ==
  /\ [](pc = "Done" => DoneFlow)
  /\ [][CatalogCallInOrder]_vars

\* C20: within a request the conversation is append-only: a step leaves every
\* message the conversation holds in its place and as it was, whatever it
\* appends, and leaves the request's input message list as it arrived.
C20_AppendOnly ==
  [][/\ Len(convo') >= Len(convo)
     /\ SubSeq(convo', 1, Len(convo)) = convo
     /\ body' = body]_vars

(***************************************************************************)
(* The limit of the arguments a handler is given, checked under Spec.      *)
(***************************************************************************)
\* the arguments of the tool call the loop is at, as they were proposed
ProposedArgs ==
  DecodeArguments(
    ResolveToolCalls(mustUseTool, first, lastUser)[tcIndex].function.arguments).value

\* C21: the arguments handed to a tool handler hold a limit that is an
\* integer >= 1, whatever limit was proposed, and 5 when the proposal held no
\* limit or a falsy one.
C21_LimitAtLeastOne ==
  pc = "ExecutingTools"
    => /\ "limit" \in DOMAIN args
       /\ args.limit \in Nat
       /\ args.limit >= 1
       /\ ("limit" \notin DOMAIN ProposedArgs \/ ProposedArgs.limit = 0)
            => args.limit = SafeLimit

(***************************************************************************)
(* Properties of the query and of the heuristic, checked under SpecDirect. *)
(***************************************************************************)
\* the space-separated tokens of a query
Tokens(q) == IF q = "" THEN <<>> ELSE SplitSpace(q, 1, "")

\* \d+(?:\.\d+)? and nothing else
IsNumericToken(t) ==
  /\ DigitsEnd(t, 1) > 1
  /\ \/ DigitsEnd(t, 1) = Len(t) + 1
     \/ /\ CharAt(t, DigitsEnd(t, 1)) = "."
        /\ DigitsEnd(t, DigitsEnd(t, 1) + 1) > DigitsEnd(t, 1) + 1
        /\ DigitsEnd(t, DigitsEnd(t, 1) + 1) = Len(t) + 1

HasPriceSymbol(t) == \E k \in 1..Len(t) : CharAt(t, k) \in {"$", "<", ">", "="}

\* C22: no price phrase leaks into the keyword query: every space-separated
\* token of deriveQuery(x) is longer than one character, is no stopword, is
\* no standalone number and holds no currency or comparison symbol.
C22_NoPriceInQuery ==
  (call.op = "deriveQuery" /\ ret # None)
    => \A k \in 1..Len(Tokens(ret.value)) :
         /\ Len(Tokens(ret.value)[k]) > 1
         /\ Tokens(ret.value)[k] \notin STOPWORDS
         /\ ~IsNumericToken(Tokens(ret.value)[k])
         /\ ~HasPriceSymbol(Tokens(ret.value)[k])

\* C23: the heuristic is looser than the parser: shouldUseCatalog fires on
\* every text on which parsePriceIntent yields an intent other than none.
C23_HeuristicCoversParser ==
  (call.op = "parsePriceIntent" /\ ret # None /\ ret.value.price_mode # "none")
    => shouldUseCatalog(call.text)

\* C24: normalizeQuery and applyPriceGuardrails write disjoint fields and
\* commute: applyPriceGuardrails leaves query and limit as proposed,
\* normalizeQuery leaves limit and every price field as proposed, and the two
\* applied in either order yield the same arguments.
C24_NormalizeAndGuardrailsCommute ==
  /\ (call.op = "normalizeQuery" /\ ret # None)
       => /\ Delete(ret.value, {"query"}) = Delete(call.args, {"query"})
          /\ Restrict(applyPriceGuardrails(call.text, call.args), {"query", "limit"})
               = Restrict(call.args, {"query", "limit"})
          /\ applyPriceGuardrails(call.text, ret.value)
               = normalizeQuery(call.text, applyPriceGuardrails(call.text, call.args))
  /\ (call.op = "applyPriceGuardrails" /\ ret # None)
       => /\ Restrict(ret.value, {"query", "limit"})
               = Restrict(call.args, {"query", "limit"})
          /\ normalizeQuery(call.text, ret.value)
               = applyPriceGuardrails(call.text, normalizeQuery(call.text, call.args))

\* a proposal with a price phrase in its query and every price field, for a
\* text that states a range
C24_Witness ==
  /\ call.op = "normalizeQuery"
  /\ ret # None
  /\ "query" \in DOMAIN call.args
  /\ call.args.query = "racing under $20"
  /\ PriceFields \subseteq DOMAIN call.args
  /\ parsePriceIntent(call.text).price_mode = "range"
  /\ ret.value.query = "racing"

=============================================================================
